---- MODULE Spec2Model ----
(***************************************************************************)
(* TimesTable: the times-table circle of src/src/app.rs.                   *)
(*                                                                         *)
(* One behaviour step is one call of eframe::App::update (one frame):      *)
(* handle the gestures, apply the options' widgets, paint the circle, then *)
(* take the animation step.                                                *)
(*                                                                         *)
(* Numbers.  The f32 fields are kept in fixed point:                       *)
(*   multiplier, step_size, stroke, zoom, zoom factors,                    *)
(*   perimeter_points_radius : hundredths (Scale), the resolution of the   *)
(*                             multiplier slider (max_decimals(2));        *)
(*   rotation, angles         : milliradians.                              *)
(* A point of the unit circle is kept as its angle: its coordinates        *)
(* (cos angle, sin angle) are a function of the angle alone.               *)
(* offset, center and the colours take no part in any property below and   *)
(* are left out of the state.                                              *)
(***************************************************************************)
EXTENDS Integers, Sequences, FiniteSets, TLC

VARIABLES first_frame, zoom, rotation, paused, num_points, multiplier,
          step_size, stroke, perimeter_points_radius,
          points, lines, dots, panicked, drawn, should_continue, repaint

vars == <<first_frame, zoom, rotation, paused, num_points, multiplier,
          step_size, stroke, perimeter_points_radius,
          points, lines, dots, panicked, drawn, should_continue, repaint>>

----------------------------------------------------------------------------
(* Units and bounds *)

\* hundredths: Slider(multiplier).min_decimals(2).max_decimals(2)
Scale == 100

\* std::f32::consts::PI and TAU, in milliradians
PI == 3141
TAU == 6283

\* the model's upper end of the "Points" slider (0..=10000 in the program)
MaxPoints == 10

\* |zoom| is explored up to this value (hundredths)
MaxZoom == 100

\* number of rotation gestures explored
MaxTurns == 2

----------------------------------------------------------------------------
(* f32 arithmetic in fixed point *)

\* a * b of two fixed-point numbers, rounded toward zero
fmul(a, b) ==
    IF a * b >= 0 THEN (a * b) \div Scale ELSE -((-(a * b)) \div Scale)

\* a / n for an f32 a and n = num_points as f32; x / 0.0 is an infinity in
\* f32, never a trap
fdiv(a, n) ==
    IF n = 0 THEN "inf" ELSE a \div n

\* as_usize rounding to the nearest integer instead of truncating
as_usize_round(x) ==
    IF x < 0 THEN 0 ELSE (x + Scale \div 2) \div Scale

\* `x as usize` of a fixed-point x: truncates, and saturates below at 0
as_usize(x) ==
    IF x < 0 THEN 0 ELSE x \div Scale

----------------------------------------------------------------------------
(* Geometry *)

Pos2(angle) == [angle |-> angle]

RECURSIVE generate_loop(_, _, _, _)
generate_loop(k, num, angle, acc) ==
    IF k >= num THEN acc
    ELSE generate_loop(k + 1, num, angle + fdiv(TAU, num),
                       Append(acc, Pos2(angle)))

\* generate_points with its loop started at 1: one point short
generate_points_short(num, start_angle) ==
    generate_loop(1, num, start_angle, <<>>)

\* fn generate_points(num_points: usize, start_angle: f32) -> Vec<Pos2>
generate_points(num, start_angle) ==
    generate_loop(0, num, start_angle, <<>>)

\* let j = ((i as f32) * self.multiplier) as usize % self.num_points;
\* i * m is the f32 product in hundredths.  Only used with num > 0.
paired_index(i, m, num) ==
    as_usize(i * m) % num

\* the line loop over 0..=num_points instead of 0..num_points
RECURSIVE line_loop_inclusive(_, _, _, _, _)
line_loop_inclusive(i, num, m, pts, acc) ==
    IF i > num THEN [lines |-> acc, panicked |-> FALSE]
    ELSE IF num = 0 THEN [lines |-> acc, panicked |-> TRUE]
    ELSE LET j == paired_index(i, m, num)
         IN  IF i >= Len(pts) \/ j >= Len(pts)
             THEN [lines |-> acc, panicked |-> TRUE]
             ELSE line_loop_inclusive(i + 1, num, m, pts,
                                      Append(acc, <<i, j>>))

\* The line loop of paint_times_circle.  A line is the pair <<i, j>> of the
\* indices it joins.  panicked records a remainder by zero or an index past
\* the end of the Vec, both of which abort the program.
RECURSIVE line_loop(_, _, _, _, _)
line_loop(i, num, m, pts, acc) ==
    IF i >= num THEN [lines |-> acc, panicked |-> FALSE]
    ELSE IF num = 0 THEN [lines |-> acc, panicked |-> TRUE]
    ELSE LET j == paired_index(i, m, num)
         IN  IF i >= Len(pts) \/ j >= Len(pts)
             THEN [lines |-> acc, panicked |-> TRUE]
             ELSE line_loop(i + 1, num, m, pts, Append(acc, <<i, j>>))

\* fn draw_perimeter_points: one circle per index, reading points[i]
RECURSIVE draw_perimeter_points(_, _, _, _)
draw_perimeter_points(i, num, pts, acc) ==
    IF i >= num THEN [dots |-> acc, panicked |-> FALSE]
    ELSE IF i >= Len(pts) THEN [dots |-> acc, panicked |-> TRUE]
    ELSE draw_perimeter_points(i + 1, num, pts, Append(acc, i))

\* fn paint_times_circle(&mut self, ui)
paint_times_circle(num, m, rot, ppr) ==
    LET pts == generate_points(num, rot)
        ln  == line_loop(0, num, m, pts, <<>>)
        dt  == IF ~ln.panicked /\ ppr > 0
               THEN draw_perimeter_points(0, num, pts, <<>>)
               ELSE [dots |-> <<>>, panicked |-> FALSE]
    IN  [points |-> pts, lines |-> ln.lines, dots |-> dt.dots,
         panicked |-> ln.panicked \/ dt.panicked]

----------------------------------------------------------------------------
(* Animation step *)

\* the step's condition with <= for <
ShouldStep_inclusive(p, m, num) ==
    ~p /\ m <= num * Scale /\ m > 0

\* the step's condition without the paused flag
ShouldStep_unpaused(p, m, num) ==
    m < num * Scale /\ m > 0

\* if !self.paused && self.multiplier < self.num_points as f32
\*    && self.multiplier > 0.0
ShouldStep(p, m, num) ==
    ~p /\ m < num * Scale /\ m > 0

\* the step with -= for +=
StepMultiplier_back(m, s) ==
    m - s

\* self.multiplier += self.step_size;
StepMultiplier(m, s) ==
    m + s

----------------------------------------------------------------------------
(* State after construction *)

\* new with the animation running from the start
new_playing ==
    [first_frame |-> TRUE, zoom |-> 85, rotation |-> PI, paused |-> FALSE,
     num_points |-> 10, multiplier |-> 200, step_size |-> 10,
     stroke |-> 100, perimeter_points_radius |-> 200]

\* TimesCircleApp::new
new ==
    [first_frame |-> TRUE, zoom |-> 85, rotation |-> PI, paused |-> TRUE,
     num_points |-> 10, multiplier |-> 200, step_size |-> 10,
     stroke |-> 100, perimeter_points_radius |-> 200]

Init ==
    /\ first_frame = new.first_frame
    /\ zoom = new.zoom
    /\ rotation = new.rotation
    /\ paused = new.paused
    /\ num_points = new.num_points
    /\ multiplier = new.multiplier
    /\ step_size = new.step_size
    /\ stroke = new.stroke
    /\ perimeter_points_radius = new.perimeter_points_radius
    /\ points = <<>>
    /\ lines = <<>>
    /\ dots = <<>>
    /\ panicked = FALSE
    /\ drawn = new.multiplier
    /\ should_continue = FALSE
    /\ repaint = FALSE

----------------------------------------------------------------------------
(* One frame *)

\* update(), given the fields as the gestures and widgets of this frame
\* leave them: z, r from handle_mouse_inputs / handle_multitouch_inputs,
\* num, m, s, p from options_ui, st, ppr from style_options_ui; hover says
\* that the pointer is over the central panel, first is self.first_frame.
\* The result is the state the frame ends in.  drawn is the multiplier the
\* frame painted with, which is the one the animation step then reads.
frame(z, r, num, m, s, p, st, ppr, hover, first) ==
    LET pt == paint_times_circle(num, m, r, ppr)
        go == ~pt.panicked /\ ShouldStep(p, m, num)
    IN  [first_frame |-> FALSE, zoom |-> z, rotation |-> r,
         num_points |-> num, step_size |-> s, paused |-> p, stroke |-> st,
         perimeter_points_radius |-> ppr,
         points |-> pt.points, lines |-> pt.lines, dots |-> pt.dots,
         panicked |-> pt.panicked, drawn |-> m,
         multiplier |-> IF go THEN StepMultiplier(m, s) ELSE m,
         should_continue |-> go,
         repaint |-> (go \/ hover \/ first)]

update(z, r, num, m, s, p, st, ppr, hover) ==
    /\ ~panicked
    /\ \E f \in {frame(z, r, num, m, s, p, st, ppr, hover, first_frame)} :
        /\ first_frame' = f.first_frame
        /\ zoom' = f.zoom
        /\ rotation' = f.rotation
        /\ num_points' = f.num_points
        /\ step_size' = f.step_size
        /\ paused' = f.paused
        /\ stroke' = f.stroke
        /\ perimeter_points_radius' = f.perimeter_points_radius
        /\ points' = f.points
        /\ lines' = f.lines
        /\ dots' = f.dots
        /\ panicked' = f.panicked
        /\ drawn' = f.drawn
        /\ multiplier' = f.multiplier
        /\ should_continue' = f.should_continue
        /\ repaint' = f.repaint

\* values the widgets and gestures hand in
PointsInputs == 0 .. MaxPoints
MultiplierInputs(num) ==
    {m \in {0, 100, 250, 995, num * Scale} : m <= num * Scale}
StepInputs == {0, 10, 100}
StrokeInputs == {30, 100}
PointSizeInputs == {0, 200}
ZoomFactors == {-100, 0, 50, 100, 200}
RotationDeltas == {500}

\* a frame without any input
FrameIdle ==
    update(zoom, rotation, num_points, multiplier, step_size, paused,
           stroke, perimeter_points_radius, FALSE)

\* Slider::new(&mut self.num_points, 0..=10000)
FrameSetNumPoints ==
    \E n \in PointsInputs :
        update(zoom, rotation, n, multiplier, step_size, paused,
               stroke, perimeter_points_radius, FALSE)

\* Slider::new(&mut self.multiplier, 0.0..=self.num_points as f32)
FrameSetMultiplier ==
    \E m \in MultiplierInputs(num_points) :
        update(zoom, rotation, num_points, m, step_size, paused,
               stroke, perimeter_points_radius, FALSE)

\* Slider::new(&mut self.step_size, 0.0..=1.0)
FrameSetStepSize ==
    \E s \in StepInputs :
        update(zoom, rotation, num_points, multiplier, s, paused,
               stroke, perimeter_points_radius, FALSE)

\* the play button
FramePlay ==
    update(zoom, rotation, num_points, multiplier, step_size, FALSE,
           stroke, perimeter_points_radius, FALSE)

\* the stop button
FrameStop ==
    update(zoom, rotation, num_points, multiplier, step_size, TRUE,
           stroke, perimeter_points_radius, FALSE)

\* Slider::new(&mut self.stroke, 0.0..=1.0)
FrameSetStroke ==
    \E st \in StrokeInputs :
        update(zoom, rotation, num_points, multiplier, step_size, paused,
               st, perimeter_points_radius, FALSE)

\* Slider::new(&mut self.perimeter_points_radius, 0.0..=10.0)
FrameSetPointSize ==
    \E ppr \in PointSizeInputs :
        update(zoom, rotation, num_points, multiplier, step_size, paused,
               stroke, ppr, FALSE)

\* handle_mouse_inputs with the pointer over the panel: self.zoom *= factor
FrameMouseZoom ==
    \E f \in ZoomFactors :
        /\ fmul(zoom, f) \in -MaxZoom .. MaxZoom
        /\ update(fmul(zoom, f), rotation, num_points, multiplier,
                  step_size, paused, stroke, perimeter_points_radius, TRUE)

\* handle_multitouch_inputs, touches with no hovering pointer:
\* self.zoom *= zoom_delta; self.rotation += rotation_delta
FrameMultiTouch ==
    \E f \in ZoomFactors, d \in RotationDeltas :
        /\ fmul(zoom, f) \in -MaxZoom .. MaxZoom
        /\ rotation + d <= PI + MaxTurns * d
        /\ update(fmul(zoom, f), rotation + d, num_points, multiplier,
                  step_size, paused, stroke, perimeter_points_radius, FALSE)

----------------------------------------------------------------------------
(* Specifications *)

\* the options window: sliders and playback buttons
Next ==
    \/ FrameIdle
    \/ FrameSetNumPoints
    \/ FrameSetMultiplier
    \/ FrameSetStepSize
    \/ FramePlay
    \/ FrameStop

Spec == Init /\ [][Next]_vars

\* the view: gestures, style sliders and the points slider, animation at rest
NextView ==
    \/ FrameIdle
    \/ FrameMouseZoom
    \/ FrameMultiTouch
    \/ FrameSetStroke
    \/ FrameSetPointSize
    \/ FrameSetNumPoints

SpecView == Init /\ [][NextView]_vars

\* the animation left to itself: the play button has been pressed on a frame
\* that stepped into 0 < multiplier < num_points with step_size > 0, and from
\* then on the only frames are the ones the program asked for
InitRun ==
    \E n \in 1 .. MaxPoints, s \in StepInputs : \E m \in MultiplierInputs(n) :
        /\ s > 0
        /\ 0 < StepMultiplier(m, s)
        /\ StepMultiplier(m, s) < n * Scale
        /\ \E f \in {frame(new.zoom, new.rotation, n, m, s, FALSE, new.stroke,
                           new.perimeter_points_radius, FALSE, FALSE)} :
            /\ f.should_continue
            /\ first_frame = f.first_frame
            /\ zoom = f.zoom
            /\ rotation = f.rotation
            /\ num_points = f.num_points
            /\ step_size = f.step_size
            /\ paused = f.paused
            /\ stroke = f.stroke
            /\ perimeter_points_radius = f.perimeter_points_radius
            /\ points = f.points
            /\ lines = f.lines
            /\ dots = f.dots
            /\ panicked = f.panicked
            /\ drawn = f.drawn
            /\ multiplier = f.multiplier
            /\ should_continue = f.should_continue
            /\ repaint = f.repaint

\* ctx.request_repaint(): update gets called again
FrameRequested ==
    /\ repaint
    /\ FrameIdle

NextRun == FrameRequested

SpecRun == InitRun /\ [][NextRun]_vars /\ WF_vars(FrameRequested)

----------------------------------------------------------------------------
(* Properties *)

\* C1: on every frame that reaches the animation step with paused false and
\* 0 <= multiplier < num_points (multiplier = 0 and step_size = 0 included),
\* the step sets multiplier to multiplier + step_size and asks for another
\* frame.
C1_AnimationStep ==
    (~first_frame /\ ~paused /\ 0 <= drawn /\ drawn < num_points * Scale)
        => (multiplier = drawn + step_size /\ should_continue)

\* C2: on every frame that reaches the animation step with
\* multiplier >= num_points or multiplier < 0, the step leaves multiplier as
\* it is and asks for no frame; and a frame without input that starts from
\* such a multiplier changes neither multiplier nor num_points, step_size or
\* paused: the animation stays frozen past the bound, it neither resets nor
\* reverses.
C2_BoundaryStop ==
    /\ []((~first_frame /\ (drawn >= num_points * Scale \/ drawn < 0))
            => (multiplier = drawn /\ ~should_continue))
    /\ [][(FrameIdle /\ (multiplier >= num_points * Scale \/ multiplier < 0))
            => (/\ multiplier' = multiplier
                /\ ~should_continue'
                /\ UNCHANGED <<num_points, step_size, paused>>)]_vars

\* the step from 9.95 overshot 10 to 10.05 and the next frame froze there
C2_FrozenPastBound ==
    /\ ~paused
    /\ num_points = 10
    /\ step_size = 10
    /\ multiplier = 1005
    /\ drawn = 1005
    /\ ~should_continue

\* C3: a frame that reaches the animation step with paused true leaves
\* multiplier as painted and asks for no frame, whatever num_points,
\* multiplier and step_size are; and a frame that ends paused changes
\* multiplier only as an edit of the multiplier slider does.
C3_PausedNoStep ==
    /\ []((~first_frame /\ paused)
            => (multiplier = drawn /\ ~should_continue))
    /\ [][(paused' /\ multiplier' # multiplier) => FrameSetMultiplier]_vars

\* stopped in mid-animation, where a step would otherwise be due
C3_StoppedMidway ==
    /\ paused
    /\ ~first_frame
    /\ num_points = 10
    /\ step_size = 10
    /\ multiplier = 230
    /\ ~should_continue

\* C4 (as claimed): 0 <= multiplier <= num_points in every reachable state.
C4_MultiplierInRange ==
    0 <= multiplier /\ multiplier <= num_points * Scale

\* C4 (amended): multiplier >= 0 in every reachable state, and a frame ends
\* with multiplier > num_points only if it left multiplier unchanged or if
\* its animation step added step_size to a value below num_points, so that
\* multiplier < num_points + step_size.
C4_MultiplierOvershoot ==
    /\ [](multiplier >= 0)
    /\ [][(multiplier' > num_points' * Scale)
            => (\/ multiplier' = multiplier
                \/ multiplier' < num_points' * Scale + step_size')]_vars

\* the last step has just carried multiplier past num_points
C4_PastBound ==
    /\ should_continue
    /\ drawn < num_points * Scale
    /\ multiplier > num_points * Scale

\* C5: zoom is strictly positive after any sequence of mouse zoom and
\* multitouch updates, whatever the factors.
C5_ZoomPositive ==
    zoom > 0

\* C6: the frame draws one line per index i in 0..num_points-1, from i to an
\* index j < num_points with j = floor(i * multiplier) mod num_points, the
\* floor f being the integer with f <= i * multiplier < f + 1; multiplier 1.0
\* gives j = i, and i = 3, multiplier = 2.5, num_points = 10 gives j = 7.
C6_PairedIndex ==
    ~first_frame =>
        /\ Len(lines) = num_points
        /\ \A i \in 0 .. num_points - 1 :
            LET j == lines[i + 1][2]
            IN  /\ lines[i + 1][1] = i
                /\ j \in 0 .. num_points - 1
                /\ \E q \in 0 .. i * (MaxPoints + 2) :
                    /\ (q * num_points + j) * Scale <= i * drawn
                    /\ i * drawn < (q * num_points + j + 1) * Scale
                /\ (drawn = Scale => j = i)
        /\ (num_points = 10 /\ drawn = 250 => lines[4] = <<3, 7>>)

\* the frame painted with num_points = 10 and multiplier 2.5
C6_ThreeToSeven ==
    /\ ~first_frame
    /\ num_points = 10
    /\ drawn = 250
    /\ lines[4] = <<3, 7>>

\* C7: no frame aborts on a remainder by zero or an index out of range; a
\* frame with num_points = 0 has an empty point set and draws no line and no
\* perimeter point; generate_points(0, theta) is empty for any theta.
C7_ZeroPoints ==
    /\ ~panicked
    /\ (~first_frame /\ num_points = 0)
            => (points = <<>> /\ lines = <<>> /\ dots = <<>>)
    /\ \A theta \in {-PI, 0, PI, TAU} : generate_points(0, theta) = <<>>

\* a frame painted with no points, perimeter points switched on, playing
C7_PaintedEmpty ==
    /\ ~first_frame
    /\ num_points = 0
    /\ perimeter_points_radius > 0
    /\ ~paused

\* C8: for num_points >= 1 the frame's point set has exactly num_points
\* points, the k-th at angle rotation + k * (TAU / num_points).
C8_GeneratePoints ==
    (~first_frame /\ num_points >= 1) =>
        /\ Len(points) = num_points
        /\ \A k \in 0 .. num_points - 1 :
            points[k + 1] = Pos2(rotation + k * (TAU \div num_points))

\* three points painted after a rotation gesture
C8_ThreeRotated ==
    /\ ~first_frame
    /\ num_points = 3
    /\ rotation = PI + 500
    /\ Len(points) = 3

\* C9 (as claimed): the state after construction has paused = true,
\* num_points = 500, multiplier = 2.0, step_size = 0.1, stroke = 0.3,
\* zoom = 0.85 and rotation = pi.
C9_InitialStateClaimed ==
    first_frame =>
        /\ paused
        /\ num_points = 500
        /\ multiplier = 200
        /\ step_size = 10
        /\ stroke = 30
        /\ zoom = 85
        /\ rotation = PI

\* C9 (amended): the state after construction has paused = true,
\* num_points = 10, multiplier = 2.0, step_size = 0.1, stroke = 1.0,
\* zoom = 0.85 and rotation = pi.
C9_InitialState ==
    first_frame =>
        /\ paused
        /\ num_points = 10
        /\ multiplier = 200
        /\ step_size = 10
        /\ stroke = 100
        /\ zoom = 85
        /\ rotation = PI

\* the state before the first frame
C9_Constructed ==
    /\ first_frame
    /\ num_points = 10
    /\ stroke = 100

\* C10: started with paused false, step_size > 0 and
\* 0 < multiplier < num_points, and served every frame it asks for, the
\* animation reaches multiplier >= num_points with no frame asked for and
\* stays there for good; no frame lowers multiplier or changes paused.
C10_Termination ==
    /\ (~paused /\ step_size > 0
        /\ 0 < multiplier /\ multiplier < num_points * Scale)
    /\ <>[](/\ multiplier >= num_points * Scale
            /\ ~should_continue
            /\ ~repaint)
    /\ [][multiplier' >= multiplier /\ paused' = paused]_vars

\* the animation has run past the bound and come to rest
C10_AtRest ==
    /\ ~paused
    /\ step_size > 0
    /\ multiplier >= num_points * Scale
    /\ ~should_continue
    /\ ~repaint

====
